---- MODULE Spec2Model ----
(***************************************************************************)
(* Model of the pre-decimal coin changing library (src/src/lib.rs):        *)
(* the change solver coin_change and the Currency / Wallet / Price value   *)
(* types around it.                                                        *)
(*                                                                         *)
(* Rust slices and vectors are indexed from 0.  Tables are modelled as     *)
(* functions over 0..n-1 (C and P over 0..target, S over 0..k-1); the      *)
(* denomination slice is a TLA+ sequence, so coins[i] of the code is       *)
(* coins[i + 1] here (operator At).                                        *)
(*                                                                         *)
(* usize is 64 bits wide.  Every input of the bounded model is far below   *)
(* 2^64, so the only arithmetic that can leave the range is the            *)
(* subtraction "v -= coins[i]" of the reconstruction loop, which is        *)
(* modelled explicitly for both build profiles (see ReconstructLoop).      *)
(***************************************************************************)
EXTENDS Integers, Sequences, FiniteSets

VARIABLES
    coins,      \* coin_change: the denomination slice
    target,     \* coin_change: the target amount
    pc,         \* coin_change: position in the function body
    v,          \* coin_change: remaining amount
    C,          \* coin_change: cost table
    P,          \* coin_change: choice table
    S,          \* coin_change: usage count per denomination
    to_return,  \* coin_change: the vector returned
    fault,      \* coin_change: how the call ended when it did not return
    op,         \* value types: the operation last applied
    price,      \* value types: a Price (argument or result)
    wallet,     \* value types: a Wallet
    back,       \* value types: Price::from(wallet)
    harg,       \* value types: a halfpence argument
    cur,        \* value types: a Currency
    items,      \* Sum: the prices the iterator has not yielded yet
    summed      \* Sum: the whole collection being summed

solverVars == <<coins, target, pc, v, C, P, S, to_return, fault>>
moneyVars == <<op, price, wallet, back, harg, cur, items, summed>>
vars == <<coins, target, pc, v, C, P, S, to_return, fault,
          op, price, wallet, back, harg, cur, items, summed>>

(***************************************************************************)
(* Bounds of the model.                                                    *)
(***************************************************************************)
MaxCoins == 3       \* longest denomination slice drawn
MaxCoin == 7        \* largest denomination value drawn (0 is drawn too)
MaxTarget == 20     \* largest target drawn

Builds == {"debug", "release"}

RECURSIVE SeqsUpTo(_, _)
SeqsUpTo(A, n) ==
    IF n = 0 THEN {<<>>}
    ELSE LET shorter == SeqsUpTo(A, n - 1)
         IN shorter \cup {Append(s, a) : s \in {t \in shorter : Len(t) = n - 1}, a \in A}

CoinSlices == SeqsUpTo(0..MaxCoin, MaxCoins)

RECURSIVE SumSeq(_)
SumSeq(s) == IF s = <<>> THEN 0 ELSE Head(s) + SumSeq(Tail(s))

Range(s) == {s[n] : n \in 1..Len(s)}

(***************************************************************************)
(* coin_change                                                             *)
(***************************************************************************)
\* coins[i] of the code, i counted from 0.
At(cs, i) == cs[i + 1]

\* let mut C: Vec<usize> = (0..=v).collect();
InitC(t) == [w \in 0..t |-> w]

\* let mut P = vec![0; v + 1];
InitP(t) == [w \in 0..t |-> 0]

\* let mut S = vec![0; k];
InitS(k) == [i \in 0..(k - 1) |-> 0]

\* Arguments are passed by value, as in the code: an operator that carries
\* tables from one iteration to the next binds them (T \in {T0}) before its
\* body reads them, and yields the one result.
The(A) == CHOOSE x \in A : TRUE

\* ScanCoins without the cost comparison: every denomination that fits
\* overwrites the choice, so the largest fitting one is kept.
RECURSIVE ScanCoinsNoCostTest(_, _, _, _)
ScanCoinsNoCostTest(cs, T0, w, i) ==
    The({ IF i >= Len(cs) THEN T
          ELSE IF At(cs, i) <= w
               THEN ScanCoinsNoCostTest(cs,
                              [C |-> [T.C EXCEPT ![w] = T.C[w - At(cs, i)] + 1],
                               P |-> [T.P EXCEPT ![w] = i]],
                              w, i + 1)
               ELSE ScanCoinsNoCostTest(cs, T, w, i + 1)
          : T \in {T0} })

\* The body of "for i in 0..k" for one amount w, iterations i..k-1, on the
\* tables T = [C, P].  The read C[w - coins[i]] is guarded by coins[i] <= w,
\* so it never leaves the table.
RECURSIVE ScanCoins(_, _, _, _)
ScanCoins(cs, T0, w, i) ==
    The({ IF i >= Len(cs) THEN T
          ELSE IF At(cs, i) <= w /\ T.C[w - At(cs, i)] + 1 < T.C[w]
               THEN ScanCoins(cs,
                              [C |-> [T.C EXCEPT ![w] = T.C[w - At(cs, i)] + 1],
                               P |-> [T.P EXCEPT ![w] = i]],
                              w, i + 1)
               ELSE ScanCoins(cs, T, w, i + 1)
          : T \in {T0} })

\* "for w in lo..=hi", the amounts taken in increasing order.  The range is
\* split in halves only to keep the evaluation shallow: the left half is
\* completed before the right half starts, as in the loop.
RECURSIVE ScanAmounts(_, _, _, _)
ScanAmounts(cs, T0, lo, hi) ==
    The({ IF lo > hi THEN T
          ELSE IF lo = hi THEN ScanCoins(cs, T, lo, 0)
          ELSE LET mid == (lo + hi) \div 2
               IN ScanAmounts(cs, ScanAmounts(cs, T, lo, mid), mid + 1, hi)
          : T \in {T0} })

\* Lines 291-306: the tables after the double loop.  "C[1] = 1" stores the
\* value C[1] already holds (target >= 1 here, so index 1 exists).
ScanTables(cs, t) ==
    ScanAmounts(cs, [C |-> [InitC(t) EXCEPT ![1] = 1], P |-> InitP(t)], 2, t)

\* Lines 307-312: "while v > 0 { i = P[v]; S[i] += 1; v -= coins[i]; }".
\* Result: [end, S, v] with end one of
\*   "ok"        the loop left with v = 0;
\*   "index"     S[i] indexed outside 0..k-1 (the slice is empty), or, in a
\*               release build, P[v] read after v wrapped around: the wrapped
\*               v is 2^64 - (coins[i] - v), outside 0..target for every
\*               target and denomination below 2^63;
\*   "overflow"  debug build: "attempt to subtract with overflow";
\*   "hang"      coins[i] = 0: v never changes and the loop does not end
\*               (only S[i] grows; it would take 2^64 iterations to overflow).
RECURSIVE ReconstructLoop(_, _, _, _, _)
ReconstructLoop(cs, Pt, S0, rem, build) ==
    The({ IF rem = 0 THEN [end |-> "ok", S |-> St, v |-> rem]
          ELSE LET i == Pt[rem]
               IN IF i >= Len(cs) THEN [end |-> "index", S |-> St, v |-> rem]
                  ELSE LET St2 == [St EXCEPT ![i] = St[i] + 1]
                       IN IF At(cs, i) > rem
                          THEN [end |-> IF build = "debug" THEN "overflow" ELSE "index",
                                S |-> St2, v |-> rem]
                          ELSE IF At(cs, i) = 0
                          THEN [end |-> "hang", S |-> St2, v |-> rem]
                          ELSE ReconstructLoop(cs, Pt, St2, rem - At(cs, i), build)
          : St \in {S0} })

\* n copies of x appended to out: "while S[k-1] > 0 { push; S[k-1] -= 1 }".
RECURSIVE PushTimes(_, _, _)
PushTimes(out0, x, n) ==
    The({ IF n = 0 THEN out ELSE PushTimes(Append(out, x), x, n - 1)
          : out \in {out0} })

\* Lines 313-319: "while k > 0 { ...; k -= 1 }", from k down to 1.
RECURSIVE EmitLoop(_, _, _, _)
EmitLoop(cs, St, k, out0) ==
    The({ IF k = 0 THEN out
          ELSE EmitLoop(cs, St, k - 1, PushTimes(out, At(cs, k - 1), St[k - 1]))
          : out \in {out0} })

\* The whole call: [end, value].
coin_change(cs, t, build) ==
    IF t = 0 THEN [end |-> "ok", value |-> <<>>]
    ELSE LET T == ScanTables(cs, t)
             R == ReconstructLoop(cs, T.P, InitS(Len(cs)), t, build)
         IN IF R.end = "ok"
            THEN [end |-> "ok", value |-> EmitLoop(cs, R.S, Len(cs), <<>>)]
            ELSE [end |-> R.end, value |-> <<>>]

(***************************************************************************)
(* Currency, Wallet and Price                                              *)
(***************************************************************************)
CURRENCIES_AS_HALFPENCE == <<1, 2, 6, 12, 24, 48, 60, 120, 480, 2400, 4800>>

Currency == {"Halfpenny", "Penny", "Threepence", "Sixpence", "Shilling", "Florin",
             "HalfCrown", "Crown", "OnePound", "FivePound", "TenPound"}

\* Currency::from_halfpence; "None" is Option::None.
CurrencyFromHalfpence(halfpence) ==
    CASE halfpence = 1 -> "Halfpenny"
      [] halfpence = 2 -> "Penny"
      [] halfpence = 6 -> "Threepence"
      [] halfpence = 12 -> "Sixpence"
      [] halfpence = 24 -> "Shilling"
      [] halfpence = 48 -> "Florin"
      [] halfpence = 60 -> "HalfCrown"
      [] halfpence = 120 -> "Crown"
      [] halfpence = 480 -> "OnePound"
      [] halfpence = 2400 -> "FivePound"
      [] halfpence = 4800 -> "TenPound"
      [] OTHER -> "None"

\* impl Default for Wallet
WalletDefault ==
    [halfpence |-> 0, pennies |-> 0, threepence |-> 0, sixpence |-> 0,
     shillings |-> 0, florins |-> 0, half_crowns |-> 0, crowns |-> 0,
     one_pounds |-> 0, five_pounds |-> 0, ten_pounds |-> 0]

\* Wallet::add_currency
add_currency(self, currency) ==
    CASE currency = "Halfpenny" -> [self EXCEPT !.halfpence = @ + 1]
      [] currency = "Penny" -> [self EXCEPT !.pennies = @ + 1]
      [] currency = "Threepence" -> [self EXCEPT !.threepence = @ + 1]
      [] currency = "Sixpence" -> [self EXCEPT !.sixpence = @ + 1]
      [] currency = "Shilling" -> [self EXCEPT !.shillings = @ + 1]
      [] currency = "Florin" -> [self EXCEPT !.florins = @ + 1]
      [] currency = "HalfCrown" -> [self EXCEPT !.half_crowns = @ + 1]
      [] currency = "Crown" -> [self EXCEPT !.crowns = @ + 1]
      [] currency = "OnePound" -> [self EXCEPT !.one_pounds = @ + 1]
      [] currency = "FivePound" -> [self EXCEPT !.five_pounds = @ + 1]
      [] currency = "TenPound" -> [self EXCEPT !.ten_pounds = @ + 1]

\* Wallet::to_halfpence
WalletToHalfpence(self) ==
    self.halfpence
    + self.pennies * 2
    + self.threepence * 6
    + self.sixpence * 12
    + self.shillings * 24
    + self.florins * 48
    + self.half_crowns * 60
    + self.crowns * 120
    + self.one_pounds * 480
    + self.five_pounds * 2400
    + self.ten_pounds * 4800

\* Price::new
PriceNew(pounds, shillings, halfpence) ==
    [pounds |-> pounds, shillings |-> shillings, halfpence |-> halfpence]

\* impl Default for Price
PriceDefault == [pounds |-> 0, shillings |-> 0, halfpence |-> 0]

\* Price::from_halfpence.  The first let shadows the parameter, so temp is
\* computed from the remainder, not from the argument.
PriceFromHalfpence(halfpence) ==
    LET halfpence2 == halfpence % 24
        temp == halfpence2 \div 24
        shillings == temp % 20
    IN [pounds |-> temp \div 20, shillings |-> shillings, halfpence |-> halfpence2]

\* Price::to_halfpence
PriceToHalfpence(self) == self.pounds * 480 + self.shillings * 24 + self.halfpence

\* Price::add
PriceAdd(self, rhs) ==
    LET temp1 == self.halfpence + rhs.halfpence
        halfpence == temp1 % 24
        temp2 == temp1 \div 24 + self.shillings + rhs.shillings
        shillings == temp2 % 20
    IN [pounds |-> temp2 \div 20 + self.pounds + rhs.pounds,
        shillings |-> shillings, halfpence |-> halfpence]

\* impl From<Currency> for Price
PriceFromCurrency(value) ==
    CASE value = "Halfpenny" -> [pounds |-> 0, shillings |-> 0, halfpence |-> 1]
      [] value = "Penny" -> [pounds |-> 0, shillings |-> 0, halfpence |-> 2]
      [] value = "Threepence" -> [pounds |-> 0, shillings |-> 0, halfpence |-> 3]
      [] value = "Sixpence" -> [pounds |-> 0, shillings |-> 0, halfpence |-> 6]
      [] value = "Shilling" -> [pounds |-> 0, shillings |-> 1, halfpence |-> 0]
      [] value = "Florin" -> [pounds |-> 0, shillings |-> 2, halfpence |-> 0]
      [] value = "HalfCrown" -> [pounds |-> 0, shillings |-> 2, halfpence |-> 6]
      [] value = "Crown" -> [pounds |-> 0, shillings |-> 5, halfpence |-> 0]
      [] value = "OnePound" -> [pounds |-> 1, shillings |-> 0, halfpence |-> 0]
      [] value = "FivePound" -> [pounds |-> 5, shillings |-> 0, halfpence |-> 0]
      [] value = "TenPound" -> [pounds |-> 10, shillings |-> 0, halfpence |-> 0]

\* impl From<Wallet> for Price
PriceFromWallet(value) == PriceFromHalfpence(WalletToHalfpence(value))

\* The body of impl From<Price> for Wallet after the call of coin_change:
\* each value is mapped with Currency::from_halfpence(c).unwrap() (lines
\* 132-134), then added to the wallet (lines 135-137).  unwrap panics on None.
RECURSIVE AddAll(_, _)
AddAll(w0, values) ==
    The({ IF values = <<>> THEN [end |-> "ok", wallet |-> w]
          ELSE LET c == CurrencyFromHalfpence(Head(values))
               IN IF c = "None" THEN [end |-> "unwrap", wallet |-> w]
                  ELSE AddAll(add_currency(w, c), Tail(values))
          : w \in {w0} })

\* impl From<Price> for Wallet
WalletFromPrice(value, build) ==
    LET r == coin_change(CURRENCIES_AS_HALFPENCE, PriceToHalfpence(value), build)
    IN IF r.end = "ok" THEN AddAll(WalletDefault, r.value)
       ELSE [end |-> r.end, wallet |-> WalletDefault]

(***************************************************************************)
(* The solver as a state machine: one call of coin_change.                 *)
(***************************************************************************)
\* No value-type operation is in progress.
MoneyIdle ==
    /\ op = "idle"
    /\ price = PriceDefault
    /\ wallet = WalletDefault
    /\ back = PriceDefault
    /\ harg = 0
    /\ cur = "None"
    /\ items = <<>>
    /\ summed = <<>>

Init ==
    /\ coins \in CoinSlices
    /\ target \in 0..MaxTarget
    /\ pc = "entry"
    /\ v = target
    /\ C = <<>>
    /\ P = <<>>
    /\ S = <<>>
    /\ to_return = <<>>
    /\ fault = "none"
    /\ MoneyIdle

\* Lines 285-287.
EarlyReturn ==
    /\ pc = "entry"
    /\ target = 0
    /\ pc' = "returned"
    /\ UNCHANGED <<coins, target, v, C, P, S, to_return, fault>>
    /\ UNCHANGED moneyVars

\* Lines 288-306.
Scan ==
    /\ pc = "entry"
    /\ target # 0
    /\ LET T == ScanTables(coins, target)
       IN /\ C' = T.C
          /\ P' = T.P
    /\ S' = InitS(Len(coins))
    /\ pc' = "scanned"
    /\ UNCHANGED <<coins, target, v, to_return, fault>>
    /\ UNCHANGED moneyVars

\* Lines 307-312.  The build profile decides what an underflow does.
Reconstruct ==
    /\ pc = "scanned"
    /\ \E build \in Builds :
         LET R == ReconstructLoop(coins, P, S, v, build)
         IN /\ S' = R.S
            /\ v' = R.v
            /\ fault' = IF R.end = "ok" THEN "none" ELSE R.end
            /\ pc' = CASE R.end = "ok" -> "reconstructed"
                       [] R.end = "hang" -> "hung"
                       [] OTHER -> "panicked"
    /\ UNCHANGED <<coins, target, C, P, to_return>>
    /\ UNCHANGED moneyVars

\* Lines 313-320.
Emit ==
    /\ pc = "reconstructed"
    /\ to_return' = EmitLoop(coins, S, Len(coins), <<>>)
    /\ S' = InitS(Len(coins))
    /\ pc' = "returned"
    /\ UNCHANGED <<coins, target, v, C, P, fault>>
    /\ UNCHANGED moneyVars

Next == EarlyReturn \/ Scan \/ Reconstruct \/ Emit

Spec == Init /\ [][Next]_vars

(***************************************************************************)
(* The value types as a state machine: from the idle state one operation   *)
(* is applied to arguments drawn from the bounded sets below.              *)
(***************************************************************************)
MaxPounds == 1          \* Price arguments: pounds in 0..MaxPounds
MaxShillings == 4       \* Price arguments: shillings in 0..MaxShillings
MaxHalfpence == 5       \* Price arguments: halfpence in 0..MaxHalfpence
MaxHalfpenceArg == 60   \* halfpence arguments of the conversions
MaxItems == 2           \* longest collection summed

\* The prices the tests name: price!(3/16/11), price!(5/15/10) and
\* price!(9/12/9) of add_and_change (lines 335-337); the macro doubles the
\* pence (line 238).
TestPrices == {PriceNew(3, 16, 22), PriceNew(5, 15, 20), PriceNew(9, 12, 18)}

\* Arguments of Price::new: every small price (normalised or not) and the
\* prices of the tests.
Prices ==
    {PriceNew(l, s, d) : l \in 0..MaxPounds, s \in 0..MaxShillings, d \in 0..MaxHalfpence}
        \cup TestPrices

\* The prices of the test price_sum (lines 328-329) and smaller ones.
SumPrices ==
    {PriceNew(0, 5, 4), PriceNew(0, 1, 6), PriceNew(1, 17, 10), PriceNew(0, 2, 2),
     PriceNew(0, 0, 0), PriceNew(0, 0, 23), PriceNew(0, 19, 1)}

PriceLists == SeqsUpTo(SumPrices, MaxItems)

HalfpenceArgs == (0..MaxHalfpenceArg) \cup Range(CURRENCIES_AS_HALFPENCE)

\* No call of coin_change is being traced.
SolverIdle ==
    /\ coins = <<>>
    /\ target = 0
    /\ pc = "idle"
    /\ v = 0
    /\ C = <<>>
    /\ P = <<>>
    /\ S = <<>>
    /\ to_return = <<>>
    /\ fault = "none"

MoneyInit == SolverIdle /\ MoneyIdle

\* Price::new(pounds, shillings, halfpence), lines 150-152.
NewPrice ==
    /\ op = "idle"
    /\ price' \in Prices
    /\ op' = "price_new"
    /\ UNCHANGED <<wallet, back, harg, cur, items, summed>>
    /\ UNCHANGED solverVars

\* Wallet::from(price), lines 128-140, of a price made by Price::new or by
\* Price::from(currency).
WalletFrom ==
    /\ op \in {"price_new", "price_from_currency"}
    /\ \E build \in Builds :
         LET r == WalletFromPrice(price, build)
         IN /\ wallet' = r.wallet
            /\ op' = IF r.end = "ok" THEN "wallet_from" ELSE "panicked"
    /\ UNCHANGED <<price, back, harg, cur, items, summed>>
    /\ UNCHANGED solverVars

\* Price::from(wallet) of the wallet just made, lines 268-272.
PriceFrom ==
    /\ op = "wallet_from"
    /\ back' = PriceFromWallet(wallet)
    /\ op' = "price_from_wallet"
    /\ UNCHANGED <<price, wallet, harg, cur, items, summed>>
    /\ UNCHANGED solverVars

\* Price::from_halfpence(h), lines 155-160.
FromHalfpence ==
    /\ op = "idle"
    /\ \E h \in HalfpenceArgs :
         /\ harg' = h
         /\ price' = PriceFromHalfpence(h)
    /\ op' = "from_halfpence"
    /\ UNCHANGED <<wallet, back, cur, items, summed>>
    /\ UNCHANGED solverVars

\* Currency::from_halfpence(h), lines 25-40.
CurrencyFrom ==
    /\ op = "idle"
    /\ \E h \in HalfpenceArgs :
         /\ harg' = h
         /\ cur' = CurrencyFromHalfpence(h)
    /\ op' = "currency_from_halfpence"
    /\ UNCHANGED <<price, wallet, back, items, summed>>
    /\ UNCHANGED solverVars

\* Price::from(c), lines 242-258, and a wallet holding one piece of c.
FromCurrency ==
    /\ op = "idle"
    /\ \E c \in Currency :
         /\ cur' = c
         /\ price' = PriceFromCurrency(c)
         /\ wallet' = add_currency(WalletDefault, c)
    /\ op' = "price_from_currency"
    /\ UNCHANGED <<back, harg, items, summed>>
    /\ UNCHANGED solverVars

\* iter.sum::<Price>(), lines 260-266: fold starts from Price::default().
SumStart ==
    /\ op = "idle"
    /\ \E ps \in PriceLists :
         /\ summed' = ps
         /\ items' = ps
    /\ price' = PriceDefault
    /\ op' = "summing"
    /\ UNCHANGED <<wallet, back, harg, cur>>
    /\ UNCHANGED solverVars

\* One step of the fold: acc.add(p).
SumStep ==
    /\ op = "summing"
    /\ items # <<>>
    /\ price' = PriceAdd(price, Head(items))
    /\ items' = Tail(items)
    /\ UNCHANGED <<op, wallet, back, harg, cur, summed>>
    /\ UNCHANGED solverVars

\* The iterator is exhausted: the accumulator is the sum.
SumEnd ==
    /\ op = "summing"
    /\ items = <<>>
    /\ op' = "summed"
    /\ UNCHANGED <<price, wallet, back, harg, cur, items, summed>>
    /\ UNCHANGED solverVars

MoneyNext ==
    \/ NewPrice
    \/ WalletFrom
    \/ PriceFrom
    \/ FromHalfpence
    \/ CurrencyFrom
    \/ FromCurrency
    \/ SumStart
    \/ SumStep
    \/ SumEnd

MoneySpec == MoneyInit /\ [][MoneyNext]_vars

(***************************************************************************)
(* Reference notions the solver's claims are stated with.                  *)
(***************************************************************************)
Ended == pc \in {"returned", "panicked", "hung"}

Positive(cs) == \A n \in 1..Len(cs) : cs[n] > 0

ContainsUnit(cs) == \E n \in 1..Len(cs) : cs[n] = 1

ValidSet(cs) == cs # <<>> /\ Positive(cs)

Ascending(cs) == \A n \in 1..(Len(cs) - 1) : cs[n] <= cs[n + 1]

Descending(s) == \A n \in 1..(Len(s) - 1) : s[n] >= s[n + 1]

\* The least number of pieces of the values vals (all positive) that sum to
\* t, or -1 when no multiset of them does: frontier is the set of amounts up
\* to t that exactly n pieces can make.
RECURSIVE LeastCount(_, _, _, _)
LeastCount(vals, t, frontier0, n) ==
    The({ IF t \in frontier THEN n
          ELSE IF frontier = {} THEN -1
          ELSE LeastCount(vals, t,
                          {a + d : a \in frontier, d \in vals} \cap (0..t), n + 1)
          : frontier \in {frontier0} })

MinPieces(vals, t) == LeastCount(vals, t, {0}, 0)

\* The denominations at 0-based positions that fit w and attain the cost
\* recorded for w.
Attaining(cs, Ct, w) ==
    {i \in 0..(Len(cs) - 1) : At(cs, i) <= w /\ Ct[w - At(cs, i)] + 1 = Ct[w]}

Least(A) == CHOOSE a \in A : \A b \in A : a <= b

(***************************************************************************)
(* Claims about coin_change.                                               *)
(***************************************************************************)
\* C1: for every set of positive denominations that contains 1, at any
\* position, and every target, the call returns, and what it returns is
\* made of denominations of the set and sums to the target (the empty
\* sequence for target 0).
C1_ExactChange ==
    (Ended /\ Positive(coins) /\ ContainsUnit(coins))
        => /\ pc = "returned"
           /\ Range(to_return) \subseteq Range(coins)
           /\ SumSeq(to_return) = target
           /\ (target = 0 => to_return = <<>>)

\* C2: for every set of positive denominations that contains 1 and every
\* target, the call yields a sequence with no more elements than any
\* multiset of denominations that sums to the target.
C2_Minimal ==
    (Ended /\ Positive(coins) /\ ContainsUnit(coins))
        => /\ pc = "returned"
           /\ Len(to_return) <= MinPieces(Range(coins), target)

\* C3: whatever the order of the denomination set, a returned sequence runs
\* from the largest value to the smallest.
C3_Descending == pc = "returned" => Descending(to_return)

\* C5: for a valid set without 1 and a target no combination reaches, the
\* call neither crashes nor hangs nor returns a sequence of another sum.
C5_InfeasibleReported ==
    (Ended /\ ValidSet(coins) /\ ~ContainsUnit(coins)
           /\ MinPieces(Range(coins), target) = -1)
        => /\ pc # "panicked"
           /\ pc # "hung"
           /\ ~(pc = "returned" /\ SumSeq(to_return) # target)

\* C7: a call with an empty set or a set with a non-positive value, and a
\* positive target, ends without having built the cost table, without an
\* out-of-range index and without looping forever.
C7_InvalidRejected ==
    (Ended /\ ~ValidSet(coins) /\ target > 0)
        => /\ C = <<>>
           /\ pc # "panicked"
           /\ pc # "hung"

\* C8: after the scan, for every amount w in 2..target that some
\* denomination fits with cost[w - d] + 1 = cost[w], P[w] is the position of
\* the first such denomination in the set's order.
C8_FirstBestChoice ==
    (pc \in {"scanned", "reconstructed"} /\ ValidSet(coins))
        => \A w \in 2..target :
              Attaining(coins, C, w) # {} => P[w] = Least(Attaining(coins, C, w))

(***************************************************************************)
(* What does hold of coin_change: the statements above for the sets the    *)
(* algorithm is written for, whose first denomination is 1.                *)
(***************************************************************************)
UnitFirst(cs) == cs # <<>> /\ cs[1] = 1

\* With 1 first and no zero denomination the call returns an exact, minimal
\* decomposition.
UnitFirstExactMinimal ==
    (Ended /\ Positive(coins) /\ UnitFirst(coins))
        => /\ pc = "returned"
           /\ Range(to_return) \subseteq Range(coins)
           /\ SumSeq(to_return) = target
           /\ Len(to_return) = MinPieces(Range(coins), target)

\* Whenever the call returns, from any slice, the sum is exact; and it is
\* minimal when the denominations are positive and include 1.
ReturnedIsExact ==
    pc = "returned"
        => /\ SumSeq(to_return) = target
           /\ (Positive(coins) /\ ContainsUnit(coins)
                 => Len(to_return) = MinPieces(Range(coins), target))

\* The emitted order is that of the slice, reversed: descending values for
\* an ascending slice.
AscendingGivesDescending ==
    (pc = "returned" /\ Ascending(coins)) => Descending(to_return)

\* The choice table names the first attaining denomination when 1 is first.
UnitFirstChoice ==
    (pc \in {"scanned", "reconstructed"} /\ Positive(coins) /\ UnitFirst(coins))
        => \A w \in 2..target :
              /\ Attaining(coins, C, w) # {}
              /\ P[w] = Least(Attaining(coins, C, w))

\* The doc test: coin_change(&[1, 5, 7], 20) == vec![7, 7, 5, 1].
DocTest ==
    (pc = "returned" /\ coins = <<1, 5, 7>> /\ target = 20)
        => to_return = <<7, 7, 5, 1>>

(***************************************************************************)
(* Claims about Currency, Wallet and Price.                                *)
(***************************************************************************)
\* The number of pieces in a wallet.
WalletPieces(w) ==
    w.halfpence + w.pennies + w.threepence + w.sixpence + w.shillings + w.florins
    + w.half_crowns + w.crowns + w.one_pounds + w.five_pounds + w.ten_pounds

\* The normalised price of h halfpence: halfpence < 24, shillings < 20.
Normalised(h) ==
    [pounds |-> h \div 480, shillings |-> (h \div 24) % 20, halfpence |-> h % 24]

RECURSIVE TotalHalfpence(_)
TotalHalfpence(ps) ==
    IF ps = <<>> THEN 0 ELSE PriceToHalfpence(Head(ps)) + TotalHalfpence(Tail(ps))

\* The wallet the test add_and_change expects for price!(9/12/9).
ChangeOfTest ==
    [WalletDefault EXCEPT !.threepence = 1, !.half_crowns = 1, !.crowns = 2,
                          !.one_pounds = 4, !.five_pounds = 1]

\* C4: Wallet::from(p) never fails, is worth exactly p, and holds the least
\* number of pieces of the eleven denominations that make p; for 9/12/9 it
\* is the wallet of the test.
C4_WalletIsMinimalChange ==
    (op \in {"wallet_from", "panicked", "price_from_wallet"})
        => /\ op # "panicked"
           /\ WalletToHalfpence(wallet) = PriceToHalfpence(price)
           /\ WalletPieces(wallet)
                = MinPieces(Range(CURRENCIES_AS_HALFPENCE), PriceToHalfpence(price))
           /\ (price = PriceNew(9, 12, 18) => wallet = ChangeOfTest)

\* Wallet::from has been applied to a price whose minimal change differs
\* from the largest-piece-first change (4 shillings: two florins, not a
\* half-crown, a shilling and a sixpence).
C4_Witness ==
    /\ op = "wallet_from"
    /\ price = PriceNew(0, 4, 0)
    /\ wallet = [WalletDefault EXCEPT !.florins = 2]

\* C6: the sum of a collection by repeated add from the zero price is the
\* price Price::from_halfpence makes of the total of the to_halfpence values.
C6_SumIsHalfpenceSum ==
    op = "summed" => price = PriceFromHalfpence(TotalHalfpence(summed))

\* C9: Price::from_halfpence(h) is normalised and worth h; and the price
\* made of Wallet::from(p) is worth what p is worth.
C9_HalfpenceRoundTrip ==
    /\ op = "from_halfpence"
         => /\ PriceToHalfpence(price) = harg
            /\ price.halfpence < 24
            /\ price.shillings < 20
    /\ op = "price_from_wallet"
         => PriceToHalfpence(back) = PriceToHalfpence(price)

\* C10: the three tables agree: for every currency c, the halfpence value of
\* Price::from(c) is the value Currency::from_halfpence maps to c and the
\* weight of c in Wallet::to_halfpence; and every entry of
\* CURRENCIES_AS_HALFPENCE maps to a currency.
C10_TablesAgree ==
    /\ op = "price_from_currency"
         => /\ CurrencyFromHalfpence(PriceToHalfpence(price)) = cur
            /\ PriceToHalfpence(price) = WalletToHalfpence(wallet)
    /\ (op = "currency_from_halfpence" /\ harg \in Range(CURRENCIES_AS_HALFPENCE))
         => cur # "None"

(***************************************************************************)
(* What does hold of the value types.                                      *)
(***************************************************************************)
\* The fold of add is the normalised price of the total.
SumIsNormalisedTotal ==
    op = "summed" => price = Normalised(TotalHalfpence(summed))

\* Price::from_halfpence keeps only the remainder modulo 24.
FromHalfpenceKeepsRemainder ==
    op = "from_halfpence" => price = PriceNew(0, 0, harg % 24)

\* Currency::from_halfpence inverts the weights of Wallet::to_halfpence, and
\* every entry of CURRENCIES_AS_HALFPENCE maps to a currency.
WeightsAgree ==
    /\ op = "price_from_currency"
         => CurrencyFromHalfpence(WalletToHalfpence(wallet)) = cur
    /\ (op = "currency_from_halfpence" /\ harg \in Range(CURRENCIES_AS_HALFPENCE))
         => cur # "None"

====
